---- MODULE Spec2Model ----
(***************************************************************************)
(* Model of UserManager (src/users.py): registration, confirmation, user   *)
(* creation and credential lookups over a Redis key-value store.           *)
(*                                                                         *)
(* Every call on the store (redis_pool.get/set/exists/delete) and on the   *)
(* notifier (emails.send_simple_message) is one atomic step of the calling *)
(* invocation; invocations of different callers interleave between those   *)
(* steps.  Local computation (validation, hashing, uuid, JSON) is folded   *)
(* into the step of the store call that precedes it.                       *)
(*                                                                         *)
(* Strings are tuples of one-character strings.  Values held by the store  *)
(* are bytes, <<"bytes", text>>.  Under Spec the store and the notifier     *)
(* answer every call (no connection errors); the store's key expiry is the *)
(* environment step Expire.  Under SpecFail any store or notifier call may *)
(* raise.  SpecLookup runs get_user_by_username over a store holding a     *)
(* record of any username.                                                 *)
(***************************************************************************)
EXTENDS Integers, Sequences, FiniteSets, TLC

VARIABLES
    store,      \* the Redis keyspace: key -> bytes, present keys only
    sent,       \* messages handed to emails.send_simple_message
    proc,       \* one call frame per caller
    uuids,      \* number of uuid4 values drawn so far
    salts,      \* number of bcrypt salts drawn so far
    env,        \* os.environ['AUTO_REGISTER_TOKEN'] (None when unset)
    calls,      \* number of invocations started
    expired,    \* history: registration tokens whose key the store expired
    minted,     \* history: <<origin, auth_token>> for every user record written
    confirmed   \* history: registration tokens whose confirmation returned

vars == <<store, sent, proc, uuids, salts, env, calls, expired, minted, confirmed>>

---------------------------------------------------------------------------
\* Bounds and input domains

MaxCalls == 3

Procs == {1, 2}

\* Python's None and True
None == <<"nil">>

True == <<"True">>

Usernames == { <<"a">>, <<"a", "b">>, <<"1">> }

\* passwords accounts are registered with, and what a login may present
Passwords == { <<"p">> }

Guesses == Passwords \cup { <<"q">> }

Emails == { <<"a", "@", "b", ".", "c">>, <<"a", "b">> }

Secrets == { None, <<>>, <<"s">> }

EnvSecrets == { <<>>, <<"s">> }

\* a token value that no uuid4 call returns
UnissuedTokens == {0}

---------------------------------------------------------------------------
\* Pure helpers

\* str.isalpha(): non-empty and every character a letter
IsAlpha(s) == Len(s) > 0 /\ \A i \in 1..Len(s) : s[i] \in {"a", "b", "c"}

\* re.match(r"[^@]+@[^@]+\.[^@]+", email): anchored at the start only
EmailMatch(e) ==
    \E i \in 2..Len(e) : \E j \in (i + 2)..(Len(e) - 1) :
        /\ \A k \in 1..(i - 1) : e[k] # "@"
        /\ e[i] = "@"
        /\ \A k \in (i + 1)..(j - 1) : e[k] # "@"
        /\ e[j] = "."
        /\ e[j + 1] # "@"

\* Python's `k in s` on strings
IsSubstring(k, s) ==
    \E i \in 0..(Len(s) - Len(k)) : SubSeq(s, i + 1, i + Len(k)) = k

\* str.encode('utf-8') / bytes.decode()
Encode(s) == <<"bytes", s>>
Decode(b) == b[2]
IsBytes(v) == Len(v) = 2 /\ v[1] = "bytes"

\* bcrypt.gensalt(): 128 random bits, a value no earlier call returned
Gensalt == salts + 1

\* bcrypt.hashpw(password_bytes, salt): bytes whose text carries the salt
Hashpw(password, salt) == Encode(<<"$", salt>> \o Decode(password))

\* bcrypt.checkpw(password_bytes, hashed_bytes): recompute with the salt
\* embedded in `hashed` and compare
Checkpw(password, hashed) == Hashpw(password, Decode(hashed)[2]) = hashed

\* ujson.dumps writes a bytes value as the JSON string of its text
JsonStr(v) == IF IsBytes(v) THEN Decode(v) ELSE v

DumpsUser(username, email, password, auth_token) ==
    <<JsonStr(username), JsonStr(email), JsonStr(password), auth_token>>

DumpsRegistration(username, email, password) ==
    <<JsonStr(username), JsonStr(email), JsonStr(password)>>

\* ujson.loads of a stored document
Loads(b) ==
    LET s == Decode(b) IN
    IF Len(s) = 4
    THEN [username |-> s[1], email |-> s[2], password |-> s[3], auth_token |-> s[4]]
    ELSE [username |-> s[1], email |-> s[2], password |-> s[3], auth_token |-> None]

_user_id(username) == <<"user", username>>
_registration_id(registration_token) == <<"registration", registration_token>>
_token_id(auth_token) == <<"auth", auth_token>>

\* redis_pool.exists / get / set / delete
Exists(key) == key \in DOMAIN store
Get(key) == IF key \in DOMAIN store THEN store[key] ELSE None
StoreSet(key, value) ==
    [k \in DOMAIN store \cup {key} |-> IF k = key THEN Encode(value) ELSE store[k]]
StoreDelete(key) == [k \in DOMAIN store \ {key} |-> store[k]]

\* truth value of what redis_pool.get returned
Truthy(v) == v # None /\ Decode(v) # <<>>

\* mutant of Uuid4: the generator returns its previous value again
Uuid4Repeats == IF uuids = 0 THEN uuids + 1 ELSE uuids

\* str(uuid.uuid4())
Uuid4 == uuids + 1

\* mutant of Auto: the secret is never honoured
AutoNever(auto_hash) == FALSE

\* mutant of Auto: the secrets are compared without the truth test on auto_hash
AutoWithoutGuard(auto_hash) == auto_hash = env

\* auto = auto_hash == os.getenv('AUTO_REGISTER_TOKEN') if auto_hash else False
Auto(auto_hash) ==
    IF auto_hash # None /\ auto_hash # <<>> THEN auto_hash = env ELSE FALSE

---------------------------------------------------------------------------
\* Call frames

Raise(e) == <<"raise", e>>
Return(v) == <<"return", v>>

\* A frame with no invocation in it.  `existed`, `late`, `writes` and `msgs`
\* are bookkeeping about the invocation, not program state: whether the user
\* record existed / the token had already been confirmed when the call was
\* made, the keys the invocation wrote or deleted, the messages it sent.
Idle ==
    [ pc |-> "idle", op |-> "none",
      username |-> None, password |-> None, email |-> None, auto_hash |-> None,
      token |-> 0,
      hash_password |-> None, uuid |-> 0, data |-> None,
      result |-> None,
      existed |-> FALSE, late |-> FALSE, writes |-> <<>>, msgs |-> <<>> ]

Free(p) == proc[p].pc \in {"idle", "done"} /\ calls < MaxCalls

\* the invocation is over: its locals are gone; its outcome stays with the
\* caller, who also knows the username or token the call was made with
Finish(f, r) ==
    [Idle EXCEPT !.pc = "done", !.op = f.op, !.result = r,
                 !.username = f.username, !.token = f.token,
                 !.existed = f.existed, !.late = f.late]

\* registration tokens that left the core in a confirmation link
KnownRegistrationTokens == { m.token : m \in { n \in sent : n.kind = "confirm" } }

ConfirmMessage(email, registration_token) ==
    [ kind |-> "confirm", to |-> email, username |-> None, token |-> registration_token ]

TokenMessage(email, username, auth_token) ==
    [ kind |-> "token", to |-> email, username |-> username, token |-> auth_token ]

---------------------------------------------------------------------------
\* Invocations

\* the checks of validate_registration that read no shared state: the
\* exception they raise, or None when both pass
CheckFormat(username, email) ==
    IF ~IsAlpha(username) THEN Raise("InvalidRegistrationUsername")
    ELSE IF ~EmailMatch(email) THEN Raise("InvalidRegistrationEmail")
    ELSE None

\* a call of register or validate_registration, up to the read of the user key
EnterValidation(p, f) ==
    /\ Free(p)
    /\ proc' = [proc EXCEPT ![p] =
            IF CheckFormat(f.username, f.email) # None
            THEN Finish(f, CheckFormat(f.username, f.email))
            ELSE [f EXCEPT !.pc = "validate_registration"]]
    /\ calls' = calls + 1
    /\ UNCHANGED <<store, sent, uuids, salts, env, expired, minted, confirmed>>

CallRegister(p, username, password, email, auto_hash) ==
    EnterValidation(p,
        [Idle EXCEPT !.op = "register",
                     !.username = username, !.password = password,
                     !.email = email, !.auto_hash = auto_hash,
                     !.existed = Exists(_user_id(username))])

CallValidateRegistration(p, username, email) ==
    EnterValidation(p,
        [Idle EXCEPT !.op = "validate_registration",
                     !.username = username, !.email = email,
                     !.existed = Exists(_user_id(username))])

CallConfirmRegistration(p, registration_token) ==
    /\ Free(p)
    /\ proc' = [proc EXCEPT ![p] =
            [Idle EXCEPT !.pc = "confirm_exists", !.op = "confirm_registration",
                         !.token = registration_token,
                         !.late = registration_token \in confirmed]]
    /\ calls' = calls + 1
    /\ UNCHANGED <<store, sent, uuids, salts, env, expired, minted, confirmed>>

CallGetAuthToken(p, username, password) ==
    /\ Free(p)
    /\ proc' = [proc EXCEPT ![p] =
            [Idle EXCEPT !.pc = "get_user_exists", !.op = "get_auth_token",
                         !.username = username, !.password = password,
                         !.existed = Exists(_user_id(username))]]
    /\ calls' = calls + 1
    /\ UNCHANGED <<store, sent, uuids, salts, env, expired, minted, confirmed>>

CallGetUserByUsername(p, username) ==
    /\ Free(p)
    /\ proc' = [proc EXCEPT ![p] =
            [Idle EXCEPT !.pc = "get_user_exists", !.op = "get_user_by_username",
                         !.username = username,
                         !.existed = Exists(_user_id(username))]]
    /\ calls' = calls + 1
    /\ UNCHANGED <<store, sent, uuids, salts, env, expired, minted, confirmed>>

CallGetUsernameByAuthToken(p, auth_token) ==
    /\ Free(p)
    /\ proc' = [proc EXCEPT ![p] =
            [Idle EXCEPT !.pc = "token_exists", !.op = "get_username_by_auth_token",
                         !.token = auth_token]]
    /\ calls' = calls + 1
    /\ UNCHANGED <<store, sent, uuids, salts, env, expired, minted, confirmed>>

---------------------------------------------------------------------------
\* validate_registration, and register up to its first write

\* the frame of register after validation passed: hash the password, decide
\* `auto`, enter _save_user or _save_registration and draw its uuid
RegisterAfterValidation(f) ==
    LET hash_password == Hashpw(Encode(f.password), Gensalt) IN
    [f EXCEPT !.pc = IF Auto(f.auto_hash) THEN "_save_user_set_user"
                                          ELSE "_save_registration",
              !.password = None,
              !.hash_password = hash_password,
              !.uuid = Uuid4]

\* mutant of ValidateRegistration: the existence check is left out
ValidateRegistrationNoLookup(p) ==
    LET f == proc[p] IN
    /\ f.pc = "validate_registration"
    /\ IF f.op = "validate_registration"
         THEN /\ proc' = [proc EXCEPT ![p] = Finish(f, Return(None))]
              /\ UNCHANGED <<uuids, salts>>
       ELSE /\ proc' = [proc EXCEPT ![p] = RegisterAfterValidation(f)]
            /\ uuids' = Uuid4
            /\ salts' = Gensalt
    /\ UNCHANGED <<store, sent, env, calls, expired, minted, confirmed>>

ValidateRegistration(p) ==
    LET f == proc[p] IN
    /\ f.pc = "validate_registration"
    /\ IF Truthy(Get(_user_id(f.username)))
         THEN /\ proc' = [proc EXCEPT ![p] = Finish(f, Raise("UserAlreadyExistsException"))]
              /\ UNCHANGED <<uuids, salts>>
       ELSE IF f.op = "validate_registration"
         THEN /\ proc' = [proc EXCEPT ![p] = Finish(f, Return(None))]
              /\ UNCHANGED <<uuids, salts>>
       ELSE /\ proc' = [proc EXCEPT ![p] = RegisterAfterValidation(f)]
            /\ uuids' = Uuid4
            /\ salts' = Gensalt
    /\ UNCHANGED <<store, sent, env, calls, expired, minted, confirmed>>

---------------------------------------------------------------------------
\* _save_registration and the confirmation link

\* mutant of SaveRegistration: the registration is never written
SaveRegistrationSkipsWrite(p) ==
    LET f == proc[p] IN
    /\ f.pc = "_save_registration"
    /\ proc' = [proc EXCEPT ![p] = [f EXCEPT !.pc = "register_send"]]
    /\ UNCHANGED <<store, sent, uuids, salts, env, calls, expired, minted, confirmed>>

SaveRegistration(p) ==
    LET f == proc[p]
        key == _registration_id(f.uuid) IN
    /\ f.pc = "_save_registration"
    /\ store' = StoreSet(key, DumpsRegistration(f.username, f.email, f.hash_password))
    /\ proc' = [proc EXCEPT ![p] =
            [f EXCEPT !.pc = "register_send", !.writes = Append(@, key)]]
    /\ UNCHANGED <<sent, uuids, salts, env, calls, expired, minted, confirmed>>

RegisterSend(p) ==
    LET f == proc[p]
        m == ConfirmMessage(f.email, f.uuid) IN
    /\ f.pc = "register_send"
    /\ sent' = sent \cup {m}
    /\ proc' = [proc EXCEPT ![p] =
            Finish([f EXCEPT !.msgs = Append(@, m)], Return(True))]
    /\ UNCHANGED <<store, uuids, salts, env, calls, expired, minted, confirmed>>

\* the store drops a registration key whose 1-day ttl has run out
Expire(registration_token) ==
    /\ Exists(_registration_id(registration_token))
    /\ store' = StoreDelete(_registration_id(registration_token))
    /\ expired' = expired \cup {registration_token}
    /\ UNCHANGED <<sent, proc, uuids, salts, env, calls, minted, confirmed>>

---------------------------------------------------------------------------
\* _save_user: user record, token mapping, token message

Minted(f) ==
    [ op |-> f.op, origin |-> f.token, username |-> f.username, auth_token |-> f.uuid ]

\* mutant of SaveUserSetUser: the user record is not written before the mapping
SaveUserSkipsUser(p) ==
    LET f == proc[p] IN
    /\ f.pc = "_save_user_set_user"
    /\ proc' = [proc EXCEPT ![p] = [f EXCEPT !.pc = "_save_user_set_token"]]
    /\ UNCHANGED <<store, sent, uuids, salts, env, calls, expired, minted, confirmed>>

\* mutant of SaveUserSetUser: an existing user record is kept (first write wins)
SaveUserKeepsExisting(p) ==
    LET f == proc[p]
        key == _user_id(f.username) IN
    /\ f.pc = "_save_user_set_user"
    /\ store' = IF Exists(key) THEN store
                ELSE StoreSet(key, DumpsUser(f.username, f.email, f.hash_password, f.uuid))
    /\ minted' = minted \cup {Minted(f)}
    /\ proc' = [proc EXCEPT ![p] =
            [f EXCEPT !.pc = "_save_user_set_token", !.writes = Append(@, key)]]
    /\ UNCHANGED <<sent, uuids, salts, env, calls, expired, confirmed>>

SaveUserSetUser(p) ==
    LET f == proc[p]
        key == _user_id(f.username) IN
    /\ f.pc = "_save_user_set_user"
    /\ store' = StoreSet(key, DumpsUser(f.username, f.email, f.hash_password, f.uuid))
    /\ minted' = minted \cup {Minted(f)}
    /\ proc' = [proc EXCEPT ![p] =
            [f EXCEPT !.pc = "_save_user_set_token", !.writes = Append(@, key)]]
    /\ UNCHANGED <<sent, uuids, salts, env, calls, expired, confirmed>>

\* mutant of SaveUserSetToken: the mapping is never written
SaveUserSkipsMapping(p) ==
    LET f == proc[p] IN
    /\ f.pc = "_save_user_set_token"
    /\ proc' = [proc EXCEPT ![p] = [f EXCEPT !.pc = "_save_user_send"]]
    /\ UNCHANGED <<store, sent, uuids, salts, env, calls, expired, minted, confirmed>>

SaveUserSetToken(p) ==
    LET f == proc[p]
        key == _token_id(f.uuid) IN
    /\ f.pc = "_save_user_set_token"
    /\ store' = StoreSet(key, f.username)
    /\ proc' = [proc EXCEPT ![p] =
            [f EXCEPT !.pc = "_save_user_send", !.writes = Append(@, key)]]
    /\ UNCHANGED <<sent, uuids, salts, env, calls, expired, minted, confirmed>>

\* the message is sent and _save_user returns; register and
\* confirm_registration drop its value and return None
SaveUserSend(p) ==
    LET f == proc[p]
        m == TokenMessage(f.email, f.username, f.uuid) IN
    /\ f.pc = "_save_user_send"
    /\ sent' = sent \cup {m}
    /\ proc' = [proc EXCEPT ![p] =
            Finish([f EXCEPT !.msgs = Append(@, m)], Return(None))]
    /\ confirmed' = IF f.op = "confirm_registration"
                     THEN confirmed \cup {f.token} ELSE confirmed
    /\ UNCHANGED <<store, uuids, salts, env, calls, expired, minted>>

---------------------------------------------------------------------------
\* confirm_registration

\* mutant of ConfirmExists: the existence check is left out
ConfirmExistsSkipsCheck(p) ==
    LET f == proc[p] IN
    /\ f.pc = "confirm_exists"
    /\ proc' = [proc EXCEPT ![p] = [f EXCEPT !.pc = "confirm_get"]]
    /\ UNCHANGED <<store, sent, uuids, salts, env, calls, expired, minted, confirmed>>

ConfirmExists(p) ==
    LET f == proc[p] IN
    /\ f.pc = "confirm_exists"
    /\ proc' = [proc EXCEPT ![p] =
            IF ~Exists(_registration_id(f.token))
            THEN Finish(f, Raise("InvalidRegistrationToken"))
            ELSE [f EXCEPT !.pc = "confirm_get"]]
    /\ UNCHANGED <<store, sent, uuids, salts, env, calls, expired, minted, confirmed>>

ConfirmGet(p) ==
    LET f == proc[p] IN
    /\ f.pc = "confirm_get"
    /\ proc' = [proc EXCEPT ![p] =
            [f EXCEPT !.pc = "confirm_delete", !.data = Get(_registration_id(f.token))]]
    /\ UNCHANGED <<store, sent, uuids, salts, env, calls, expired, minted, confirmed>>

\* the frame of confirm_registration entering _save_user with the fields of
\* the decoded registration
ConfirmEnterSaveUser(f) ==
    LET registration == Loads(f.data) IN
    [f EXCEPT !.pc = "_save_user_set_user",
              !.username = registration.username,
              !.hash_password = registration.password,
              !.email = registration.email,
              !.uuid = Uuid4]

\* mutant of ConfirmDelete: the registration is left in the store
ConfirmDeleteKeepsKey(p) ==
    LET f == proc[p] IN
    /\ f.pc = "confirm_delete"
    /\ IF f.data = None
       THEN /\ proc' = [proc EXCEPT ![p] = Finish(f, Raise("TypeError"))]
            /\ uuids' = uuids
       ELSE /\ proc' = [proc EXCEPT ![p] = ConfirmEnterSaveUser(f)]
            /\ uuids' = Uuid4
    /\ UNCHANGED <<store, sent, salts, env, calls, expired, minted, confirmed>>

\* delete, then ujson.loads: loads(None) raises TypeError
ConfirmDelete(p) ==
    LET f == proc[p]
        key == _registration_id(f.token)
        g == [f EXCEPT !.writes = Append(@, key)] IN
    /\ f.pc = "confirm_delete"
    /\ store' = StoreDelete(key)
    /\ IF f.data = None
       THEN /\ proc' = [proc EXCEPT ![p] = Finish(g, Raise("TypeError"))]
            /\ uuids' = uuids
       ELSE /\ proc' = [proc EXCEPT ![p] = ConfirmEnterSaveUser(g)]
            /\ uuids' = Uuid4
    /\ UNCHANGED <<sent, salts, env, calls, expired, minted, confirmed>>

---------------------------------------------------------------------------
\* get_user_by_username, get_auth_token, get_username_by_auth_token

GetUserExists(p) ==
    LET f == proc[p] IN
    /\ f.pc = "get_user_exists"
    /\ proc' = [proc EXCEPT ![p] =
            IF ~Exists(_user_id(f.username))
            THEN Finish(f, Raise("InvalidAuthLoginException"))
            ELSE [f EXCEPT !.pc = "get_user_get"]]
    /\ UNCHANGED <<store, sent, uuids, salts, env, calls, expired, minted, confirmed>>

\* what get_user_by_username returns for the document it read
UserOf(username, user_string) ==
    IF user_string = None THEN Raise("TypeError")
    ELSE IF ~IsSubstring(username, Loads(user_string).username)
         THEN Raise("InvalidAuthLoginException")
    ELSE Return(Loads(user_string))

\* mutant of _is_password_valid: every password is accepted
PasswordAlwaysValid(password, user) == TRUE

\* bcrypt.checkpw(password.encode('utf-8'), user['password'].encode('utf-8'))
_is_password_valid(password, user) ==
    Checkpw(Encode(password), Encode(user.password))

\* what get_auth_token makes of get_user_by_username's outcome
AuthTokenOf(password, outcome) ==
    IF outcome[1] = "raise" THEN outcome
    ELSE IF ~_is_password_valid(password, outcome[2])
         THEN Raise("InvalidAuthLoginException")
    ELSE Return(outcome[2].auth_token)

GetUserGet(p) ==
    LET f == proc[p]
        user_string == Get(_user_id(f.username))
        outcome == UserOf(f.username, user_string) IN
    /\ f.pc = "get_user_get"
    /\ proc' = [proc EXCEPT ![p] =
            Finish(f, IF f.op = "get_auth_token" THEN AuthTokenOf(f.password, outcome)
                                              ELSE outcome)]
    /\ UNCHANGED <<store, sent, uuids, salts, env, calls, expired, minted, confirmed>>

TokenExists(p) ==
    LET f == proc[p] IN
    /\ f.pc = "token_exists"
    /\ proc' = [proc EXCEPT ![p] =
            IF ~Exists(_token_id(f.token))
            THEN Finish(f, Raise("InvalidAuthTokenException"))
            ELSE [f EXCEPT !.pc = "token_get"]]
    /\ UNCHANGED <<store, sent, uuids, salts, env, calls, expired, minted, confirmed>>

\* mutant of TokenGet: the mapping is deleted once it has been read
TokenGetConsumes(p) ==
    LET f == proc[p]
        value == Get(_token_id(f.token)) IN
    /\ f.pc = "token_get"
    /\ store' = StoreDelete(_token_id(f.token))
    /\ proc' = [proc EXCEPT ![p] =
            Finish(f, IF value = None THEN Raise("AttributeError")
                                   ELSE Return(Decode(value)))]
    /\ UNCHANGED <<sent, uuids, salts, env, calls, expired, minted, confirmed>>

\* redis_pool.get(...).decode(): None has no decode
TokenGet(p) ==
    LET f == proc[p]
        value == Get(_token_id(f.token)) IN
    /\ f.pc = "token_get"
    /\ proc' = [proc EXCEPT ![p] =
            Finish(f, IF value = None THEN Raise("AttributeError")
                                   ELSE Return(Decode(value)))]
    /\ UNCHANGED <<store, sent, uuids, salts, env, calls, expired, minted, confirmed>>

---------------------------------------------------------------------------
\* Specification

Init ==
    /\ store = [k \in {} |-> None]
    /\ sent = {}
    /\ proc = [p \in Procs |-> Idle]
    /\ uuids = 0
    /\ salts = 0
    /\ env \in EnvSecrets
    /\ calls = 0
    /\ expired = {}
    /\ minted = {}
    /\ confirmed = {}

\* Callers pass any username, email, password and secret of the input
\* domains.  A registration token is a uuid4 nobody can guess: it is passed to
\* confirm_registration only once a confirmation link carrying it was sent
\* (or it is a value that was never issued).
Next ==
    \/ \E p \in Procs, username \in Usernames, password \in Passwords,
          email \in Emails, auto_hash \in Secrets :
            CallRegister(p, username, password, email, auto_hash)
    \/ \E p \in Procs, username \in Usernames, email \in Emails :
            CallValidateRegistration(p, username, email)
    \/ \E p \in Procs, registration_token \in KnownRegistrationTokens \cup UnissuedTokens :
            CallConfirmRegistration(p, registration_token)
    \/ \E p \in Procs, username \in Usernames, password \in Guesses :
            CallGetAuthToken(p, username, password)
    \/ \E p \in Procs, username \in Usernames :
            CallGetUserByUsername(p, username)
    \/ \E p \in Procs, auth_token \in (1..uuids) \cup UnissuedTokens :
            CallGetUsernameByAuthToken(p, auth_token)
    \/ \E p \in Procs : ValidateRegistration(p)
    \/ \E p \in Procs : SaveRegistration(p)
    \/ \E p \in Procs : RegisterSend(p)
    \/ \E p \in Procs : SaveUserSetUser(p)
    \/ \E p \in Procs : SaveUserSetToken(p)
    \/ \E p \in Procs : SaveUserSend(p)
    \/ \E p \in Procs : ConfirmExists(p)
    \/ \E p \in Procs : ConfirmGet(p)
    \/ \E p \in Procs : ConfirmDelete(p)
    \/ \E p \in Procs : GetUserExists(p)
    \/ \E p \in Procs : GetUserGet(p)
    \/ \E p \in Procs : TokenExists(p)
    \/ \E p \in Procs : TokenGet(p)
    \/ \E registration_token \in 1..uuids : Expire(registration_token)

Spec == Init /\ [][Next]_vars

---------------------------------------------------------------------------
\* Collaborator failures

StoreCallPcs ==
    { "validate_registration", "_save_registration",
      "_save_user_set_user", "_save_user_set_token",
      "confirm_exists", "confirm_get", "confirm_delete",
      "get_user_exists", "get_user_get", "token_exists", "token_get" }

NotifierCallPcs == { "register_send", "_save_user_send" }

\* the store call the invocation is about to make raises (the connection is
\* down): nothing is written, and no method catches the exception except
\* _save_user, which logs it and raises it again
StoreFail(p) ==
    LET f == proc[p] IN
    /\ f.pc \in StoreCallPcs
    /\ proc' = [proc EXCEPT ![p] = Finish(f, Raise("ConnectionError"))]
    /\ UNCHANGED <<store, sent, uuids, salts, env, calls, expired, minted, confirmed>>

\* emails.send_simple_message raises: register has no handler around it and
\* _save_user raises it again, so the exception reaches the caller
NotifierFail(p) ==
    LET f == proc[p] IN
    /\ f.pc \in NotifierCallPcs
    /\ proc' = [proc EXCEPT ![p] = Finish(f, Raise("SendError"))]
    /\ UNCHANGED <<store, sent, uuids, salts, env, calls, expired, minted, confirmed>>

\* the program with a store and a notifier that may fail any call
NextFail ==
    \/ Next
    \/ \E p \in Procs : StoreFail(p)
    \/ \E p \in Procs : NotifierFail(p)

SpecFail == Init /\ [][NextFail]_vars

---------------------------------------------------------------------------
\* get_user_by_username over any stored record

\* The store is shared with other writers: the record found under
\* user:<key> may carry any username.  One such record is in the store and
\* callers look usernames up.
InitLookup ==
    /\ \E key \in Usernames, username \in Usernames, email \in Emails :
          store = [k \in {_user_id(key)} |->
                      Encode(DumpsUser(username, email, Hashpw(Encode(<<"p">>), 1), 1))]
    /\ sent = {}
    /\ proc = [p \in Procs |-> Idle]
    /\ uuids = 1
    /\ salts = 1
    /\ env \in EnvSecrets
    /\ calls = 0
    /\ expired = {}
    /\ minted = {}
    /\ confirmed = {}

NextLookup ==
    \/ \E p \in Procs, username \in Usernames : CallGetUserByUsername(p, username)
    \/ \E p \in Procs : GetUserExists(p)
    \/ \E p \in Procs : GetUserGet(p)

SpecLookup == InitLookup /\ [][NextLookup]_vars

---------------------------------------------------------------------------
\* Properties

InFlight(p) == proc[p].pc \notin {"idle", "done"}

Done(p, op) == proc[p].pc = "done" /\ proc[p].op = op

\* the user records and what they decode to
HasUser(username) == Exists(_user_id(username))
UserRecord(username) == Loads(store[_user_id(username)])

\* the user records written by confirmations of registration token r
MintedBy(r) == { m \in minted : m.op = "confirm_registration" /\ m.origin = r }

\* C1: a registration token is single-use even under concurrent confirmation:
\* over all interleavings, the confirmations of one token write at most one
\* user record (mint at most one auth token).
C1_TokenConfirmsAtMostOnce ==
    \A r \in 1..uuids : Cardinality(MintedBy(r)) <= 1

\* C2: whenever no _save_user is between its two writes, the key auth:<t>
\* exists if and only if some user record carries auth_token t, and it then
\* holds that user's username.
C2_MappingIffUser ==
    (\A p \in Procs : proc[p].pc # "_save_user_set_token") =>
        \A t \in 1..uuids :
            /\ Exists(_token_id(t)) <=>
                  \E u \in Usernames : HasUser(u) /\ UserRecord(u).auth_token = t
            /\ \A u \in Usernames :
                  (HasUser(u) /\ UserRecord(u).auth_token = t)
                      => Get(_token_id(t)) = Encode(u)

\* C3: once a user record exists, no step changes or deletes it.
C3_UserRecordNeverChanges ==
    [][ \A u \in Usernames :
            HasUser(u) => /\ _user_id(u) \in DOMAIN store'
                          /\ store'[_user_id(u)] = store[_user_id(u)] ]_vars

\* a confirmed token has no registration left, and a confirmation called after
\* one of the same token returned stops at the existence check
C4_State ==
    /\ \A r \in confirmed : ~Exists(_registration_id(r))
    /\ \A p \in Procs :
          (proc[p].op = "confirm_registration" /\ proc[p].late) =>
              /\ proc[p].pc \in {"confirm_exists", "done"}
              /\ proc[p].pc = "done" => proc[p].result = Raise("InvalidRegistrationToken")

\* a late confirmation writes and sends nothing; a confirmation writes the
\* user record from the fields of the registration it read
C4_Step ==
    \A p \in Procs :
        (proc[p].op = "confirm_registration" /\ InFlight(p) /\ proc'[p] # proc[p]) =>
            /\ proc[p].late => (store' = store /\ sent' = sent)
            /\ proc[p].pc = "_save_user_set_user" =>
                  LET registration == Loads(proc[p].data)
                      key == _user_id(registration.username) IN
                  /\ key \in DOMAIN store'
                  /\ Loads(store'[key]).username = registration.username
                  /\ Loads(store'[key]).email = registration.email
                  /\ Loads(store'[key]).password = registration.password

\* C4: confirming a token a second time, after a confirmation of it has
\* returned: the first confirmation wrote the user record from the fields of
\* the registration and left no registration behind; every later one raises
\* InvalidRegistrationToken and changes neither the store nor the messages.
C4_SecondConfirmationFails == []C4_State /\ [][C4_Step]_vars

C4_Witness ==
    \E p \in Procs :
        /\ Done(p, "confirm_registration") /\ proc[p].late
        /\ proc[p].result = Raise("InvalidRegistrationToken")
        /\ \E u \in Usernames : HasUser(u)

\* what a get_user_by_username(username) started now would return
UserLookup(username) ==
    IF ~HasUser(username) THEN Raise("InvalidAuthLoginException")
    ELSE UserOf(username, Get(_user_id(username)))

\* C5: a reader that finds auth:<t> -> u can read a valid user record for u
\* from then on: whenever the mapping exists, and ever after a
\* get_username_by_auth_token has returned u, the record user:<u> exists and
\* get_user_by_username(u) returns it.
C5_MappingImpliesUser ==
    /\ \A t \in 1..uuids :
          Exists(_token_id(t)) => UserLookup(Decode(store[_token_id(t)]))[1] = "return"
    /\ \A p \in Procs :
          (Done(p, "get_username_by_auth_token") /\ proc[p].result[1] = "return")
              => UserLookup(proc[p].result[2])[1] = "return"

\* a reader got the username while the _save_user that wrote the mapping was
\* still running
C5_Witness ==
    \E p, q \in Procs :
        /\ Done(p, "get_username_by_auth_token")
        /\ proc[q].pc = "_save_user_send"
        /\ proc[p].result = Return(proc[q].username)

\* C6: a confirmation link is sent only once its registration is in the
\* store: at the step that sends the link for token r, registration:<r>
\* holds the registration made for the addressee (so a confirmation of r
\* passes its existence check), unless the store has already expired it.
C6_LinkSentAfterRegistrationStored ==
    [][ \A m \in sent' \ sent :
            m.kind = "confirm" =>
                \/ m.token \in expired
                \/ /\ Exists(_registration_id(m.token))
                   /\ Loads(Get(_registration_id(m.token))).email = m.to ]_vars

C6_Witness ==
    \E m \in sent : m.kind = "confirm" /\ Exists(_registration_id(m.token))

\* C7: an auth token identifies at most one username: no two user records
\* carry the same auth_token, no token was ever minted for two usernames, and
\* a key auth:<t> holds the username t was minted for.
C7_TokenIdentifiesOneUsername ==
    /\ \A u1, u2 \in Usernames :
          (HasUser(u1) /\ HasUser(u2)
              /\ UserRecord(u1).auth_token = UserRecord(u2).auth_token) => u1 = u2
    /\ \A m1, m2 \in minted : m1.auth_token = m2.auth_token => m1.username = m2.username
    /\ \A t \in 1..uuids :
          Exists(_token_id(t)) =>
              \A m \in minted : m.auth_token = t => Get(_token_id(t)) = Encode(m.username)

C7_Witness ==
    \E u1, u2 \in Usernames :
        /\ u1 # u2 /\ HasUser(u1) /\ HasUser(u2)
        /\ Exists(_token_id(UserRecord(u1).auth_token))
        /\ Exists(_token_id(UserRecord(u2).auth_token))

\* a register called while the user record existed never gets past validation
C8_State ==
    \A p \in Procs :
        (proc[p].op = "register" /\ proc[p].existed) =>
            /\ proc[p].pc \in {"validate_registration", "done"}
            /\ proc[p].pc = "done" =>
                  proc[p].result \in { Raise("UserAlreadyExistsException"),
                                       Raise("InvalidRegistrationEmail") }

\* its existence check raises UserAlreadyExistsException and changes nothing
C8_Step ==
    \A p \in Procs :
        ( /\ proc[p].op = "register" /\ proc[p].existed
          /\ proc[p].pc = "validate_registration"
          /\ IsAlpha(proc[p].username) /\ EmailMatch(proc[p].email)
          /\ proc'[p] # proc[p] ) =>
            /\ proc'[p].pc = "done"
            /\ proc'[p].result = Raise("UserAlreadyExistsException")
            /\ store' = store
            /\ sent' = sent

\* C8: a register call made while a user record for its username exists, with
\* a username and email of valid format, raises UserAlreadyExistsException at
\* the existence check and writes and sends nothing.
C8_RegisterExistingUserFails == []C8_State /\ [][C8_Step]_vars

C8_Witness ==
    \E p \in Procs :
        /\ Done(p, "register") /\ proc[p].existed
        /\ proc[p].result = Raise("UserAlreadyExistsException")

SaveUserPcs == {"_save_user_set_user", "_save_user_set_token", "_save_user_send"}

\* a register invocation that has passed validation and has not returned
RegisterValidated(p) ==
    proc[p].op = "register" /\ InFlight(p) /\ proc[p].pc # "validate_registration"

\* the supplied secret equals the configured one / and is not empty
SecretEqual(p) == proc[p].auto_hash # None /\ proc[p].auto_hash = env
SecretEqualNonEmpty(p) == SecretEqual(p) /\ proc[p].auto_hash # <<>>

\* a validated register is on the _save_user path and has neither written a
\* registration nor sent a confirmation link
AutoPath(p) ==
    /\ proc[p].pc \in SaveUserPcs
    /\ \A i \in 1..Len(proc[p].writes) : proc[p].writes[i][1] # "registration"
    /\ proc[p].msgs = <<>>

\* the step on which register returns: the user record and the mapping have
\* been written by it and are in the store, and the one message it sends is
\* the token message
AutoReturn(p) ==
    LET f == proc[p] IN
    /\ proc'[p].result = Return(None)
    /\ f.writes = << _user_id(f.username), _token_id(f.uuid) >>
    /\ _user_id(f.username) \in DOMAIN store'
    /\ Loads(store'[_user_id(f.username)]).username = f.username
    /\ _token_id(f.uuid) \in DOMAIN store'
    /\ store'[_token_id(f.uuid)] = Encode(f.username)
    /\ f.msgs = <<>>
    /\ sent' = sent \cup { TokenMessage(f.email, f.username, f.uuid) }

\* C9 as stated: a register that passes validation with a secret equal to the
\* configured one creates the user record and its mapping before returning,
\* creates no registration and sends only the token message.
C9_EqualSecretCreatesUser ==
    /\ [](\A p \in Procs : (RegisterValidated(p) /\ SecretEqual(p)) => AutoPath(p))
    /\ [][ \A p \in Procs :
              (RegisterValidated(p) /\ SecretEqual(p) /\ proc'[p].pc = "done")
                  => AutoReturn(p) ]_vars

\* C9 amended: the same for a supplied secret that is not empty and equals
\* the configured one.
C9_NonEmptyEqualSecretCreatesUser ==
    /\ [](\A p \in Procs : (RegisterValidated(p) /\ SecretEqualNonEmpty(p)) => AutoPath(p))
    /\ [][ \A p \in Procs :
              (RegisterValidated(p) /\ SecretEqualNonEmpty(p) /\ proc'[p].pc = "done")
                  => AutoReturn(p) ]_vars

\* a register call has returned from the _save_user path
C9_Witness ==
    \E p \in Procs :
        /\ Done(p, "register") /\ proc[p].result = Return(None)
        /\ HasUser(proc[p].username)
        /\ \E m \in sent : m.kind = "token" /\ m.username = proc[p].username

\* the mapping auth:<t> holds username u
MapsTo(t, u) == Get(_token_id(t)) = Encode(u)

\* C10 as stated: every token returned by a successful get_auth_token(u, p)
\* is accepted by get_username_by_auth_token and maps to u.
C10_ReturnedTokenMapsToUser ==
    \A p \in Procs :
        (Done(p, "get_auth_token") /\ proc[p].result[1] = "return")
            => MapsTo(proc[p].result[2], proc[p].username)

\* C10 amended: a token returned by a successful get_auth_token(u, p) maps to
\* u unless the _save_user that minted it is still between its two writes.
C10_ReturnedTokenMapsToUserOnceMapped ==
    \A p \in Procs :
        (Done(p, "get_auth_token") /\ proc[p].result[1] = "return")
            => \/ MapsTo(proc[p].result[2], proc[p].username)
               \/ \E q \in Procs : /\ proc[q].pc = "_save_user_set_token"
                                     /\ proc[q].uuid = proc[p].result[2]

\* the round trip: register, confirm, get_auth_token returned a token that
\* maps back to the username
C10_Witness ==
    \E p \in Procs :
        /\ Done(p, "get_auth_token") /\ proc[p].result[1] = "return"
        /\ MapsTo(proc[p].result[2], proc[p].username)
        /\ \E m \in minted : /\ m.op = "confirm_registration"
                               /\ m.auth_token = proc[p].result[2]

\* the stored hash was computed from this password: the hash text is the
\* salt prefix followed by the password it was computed from
Verifies(password, record) ==
    /\ Len(record.password) >= 2
    /\ SubSeq(record.password, 3, Len(record.password)) = password

C11_Step ==
    \A p \in Procs :
        (proc[p].op = "get_auth_token" /\ InFlight(p) /\ proc'[p].pc = "done") =>
            LET u == proc[p].username
                r == proc'[p].result IN
            IF HasUser(u) /\ Verifies(proc[p].password, UserRecord(u))
            THEN r[1] = "return" /\ r[2] = UserRecord(u).auth_token
            ELSE r[1] = "raise" /\ r[2] = "InvalidAuthLoginException"

\* C11: get_auth_token(username, password) returns exactly when a user record
\* for username exists and the password verifies against the hash stored in
\* it, and then returns the auth_token stored in that record; in every other
\* case it raises InvalidAuthLoginException and returns no token.
C11_AuthTokenIffPasswordVerifies == [][C11_Step]_vars

\* one login was refused for a wrong password against an existing record,
\* another returned the stored token
C11_Witness ==
    \E p, q \in Procs :
        /\ Done(p, "get_auth_token") /\ proc[p].existed
        /\ proc[p].result[1] = "raise"
        /\ Done(q, "get_auth_token") /\ proc[q].result[1] = "return"
        /\ proc[q].result[2] = UserRecord(proc[q].username).auth_token

\* a registration the store expired never comes back
C12_State ==
    \A r \in expired : ~Exists(_registration_id(r))

\* a confirmation that has not yet looked at the store when its token's
\* registration has expired ends at its first step and changes nothing
C12_Step ==
    \A p \in Procs :
        ( /\ proc[p].op = "confirm_registration" /\ proc[p].pc = "confirm_exists"
          /\ proc[p].token \in expired
          /\ proc'[p] # proc[p] ) =>
            /\ proc'[p].pc = "done"
            /\ proc'[p].result = Raise("InvalidRegistrationToken")
            /\ store' = store
            /\ sent' = sent
            /\ minted' = minted

\* C12: once the store has expired a registration, every confirm_registration
\* made with its token afterwards raises InvalidRegistrationToken and writes
\* no user record and no auth mapping; the registration stays absent.
C12_ExpiredTokenIsRefused == []C12_State /\ [][C12_Step]_vars

\* a confirmation of an expired token was refused and no user came of the token
C12_Witness ==
    \E p \in Procs :
        /\ Done(p, "confirm_registration") /\ proc[p].token \in expired
        /\ proc[p].result = Raise("InvalidRegistrationToken")
        /\ MintedBy(proc[p].token) = {}
        /\ \A u \in Usernames : ~HasUser(u)

ReadOnlyOps ==
    { "validate_registration", "get_auth_token",
      "get_username_by_auth_token", "get_user_by_username" }

\* C13: validate_registration, get_auth_token, get_username_by_auth_token and
\* get_user_by_username change no key of the store and send no message: every
\* step of such an invocation, from the call to the return or the raise,
\* leaves the store and the sent messages as they were.
C13_ReadersChangeNothing ==
    [][ \A p \in Procs :
            (proc'[p] # proc[p] /\ proc'[p].op \in ReadOnlyOps) =>
                /\ store' = store
                /\ sent' = sent
                /\ minted' = minted ]_vars

\* a validation was refused and a token lookup answered, with the user record
\* and its mapping in the store
C13_Witness ==
    \E p, q \in Procs :
        /\ Done(p, "validate_registration")
        /\ proc[p].result = Raise("UserAlreadyExistsException")
        /\ Done(q, "get_username_by_auth_token") /\ proc[q].result[1] = "return"
        /\ HasUser(proc[q].result[2])
        /\ Exists(_token_id(proc[q].token))

\* C14: a confirm_registration that passed its existence check and then reads
\* no registration, because the store expired the key or another confirmation
\* of the token deleted it in between, raises InvalidRegistrationToken, never
\* an exception of another kind, and writes no user record.
C14_MissingRegistrationIsInvalidToken ==
    [][ \A p \in Procs :
            ( /\ proc[p].op = "confirm_registration" /\ proc[p].pc = "confirm_delete"
              /\ proc[p].data = None
              /\ proc'[p] # proc[p] ) =>
                /\ proc'[p].pc = "done"
                /\ proc'[p].result = Raise("InvalidRegistrationToken")
                /\ minted' = minted ]_vars

\* some confirmation of registration token r has not returned yet
Confirming(r) ==
    \E q \in Procs :
        InFlight(q) /\ proc[q].op = "confirm_registration" /\ proc[q].token = r

\* C15: confirm_registration deletes the registration no earlier than the
\* point where the user record is sure to be written: when a confirmation of
\* an issued, unexpired token has failed, no user record was written from the
\* token and no other confirmation of it is running, the registration is
\* still in the store.
C15_FailedConfirmationKeepsRegistration ==
    \A p \in Procs :
        ( /\ Done(p, "confirm_registration") /\ proc[p].result[1] = "raise"
          /\ proc[p].token \in KnownRegistrationTokens \ expired
          /\ MintedBy(proc[p].token) = {}
          /\ ~Confirming(proc[p].token) ) =>
            Exists(_registration_id(proc[p].token))

\* C16: a failure of the notifier never makes register or _save_user fail:
\* the step that hands a message to emails.send_simple_message ends the
\* invocation with a return, whatever the notifier does, and leaves the
\* records the invocation wrote in the store.
C16_NotifierFailureIsNotSurfaced ==
    [][ \A p \in Procs :
            (proc[p].pc \in NotifierCallPcs /\ proc'[p].pc = "done") =>
                /\ proc'[p].result[1] = "return"
                /\ store' = store ]_vars

\* the registrations in the store made for username u
PendingFor(u) ==
    { k \in DOMAIN store : k[1] = "registration" /\ Loads(store[k]).username = u }

\* the only errors of register are those of validation, and it is refused as
\* already existing only when a user record exists: registrations pending for
\* the same username refuse nobody
C17_State ==
    \A p \in Procs :
        (Done(p, "register") /\ proc[p].result[1] = "raise") =>
            \/ proc[p].result[2] \in
                  {"InvalidRegistrationUsername", "InvalidRegistrationEmail"}
            \/ /\ proc[p].result[2] = "UserAlreadyExistsException"
               /\ HasUser(proc[p].username)

\* _save_registration adds a registration under a new key and leaves every
\* other registration in place; the user record written by a confirmation
\* replaces whatever record the username had
C17_Step ==
    \A p \in Procs :
        (InFlight(p) /\ proc'[p] # proc[p]) =>
            /\ proc[p].pc = "_save_registration" =>
                  /\ _registration_id(proc[p].uuid) \notin DOMAIN store
                  /\ DOMAIN store' = DOMAIN store \cup {_registration_id(proc[p].uuid)}
                  /\ \A k \in DOMAIN store : store'[k] = store[k]
                  /\ PendingFor(proc[p].username)' =
                        PendingFor(proc[p].username) \cup {_registration_id(proc[p].uuid)}
            /\ (proc[p].pc = "_save_user_set_user" /\ proc[p].op = "confirm_registration") =>
                  /\ HasUser(proc[p].username)'
                  /\ UserRecord(proc[p].username)'.auth_token = proc[p].uuid
                  /\ UserRecord(proc[p].username)'.password = Loads(proc[p].data).password

\* C17: two concurrent register calls without the secret for one username
\* that has no user record both pass validation and both write a
\* registration, and neither is refused; the user records written when the
\* registrations are confirmed replace one another, so the last write wins.
C17_ConcurrentRegistrationsBothPending == []C17_State /\ [][C17_Step]_vars

\* two register calls for one username are past validation at the same
\* time, and both registrations are in the store
C17_Witness ==
    \E p, q \in Procs :
        /\ p # q
        /\ proc[p].op = "register" /\ proc[p].pc = "register_send"
        /\ proc[q].op = "register" /\ proc[q].pc = "register_send"
        /\ proc[p].username = proc[q].username
        /\ ~proc[p].existed /\ ~proc[q].existed
        /\ ~HasUser(proc[p].username)
        /\ Cardinality(PendingFor(proc[p].username)) = 2

\* C18: get_user_by_username(k) returns a record only when the username
\* field of the record stored under user:<k> equals k, and then returns that
\* record; for a stored record whose username differs from k in any way, and
\* when no record is stored, it raises InvalidAuthLoginException.
C18_LookupReturnsOnlyEqualUsername ==
    \A p \in Procs :
        Done(p, "get_user_by_username") =>
            LET k == proc[p].username
                r == proc[p].result IN
            IF HasUser(k) /\ UserRecord(k).username = k
            THEN r[1] = "return" /\ r[2] = UserRecord(k)
            ELSE r[1] = "raise" /\ r[2] = "InvalidAuthLoginException"

\* C19: the token message of _save_user is sent only after the user record
\* and the mapping auth:<t> have been written: at the step that sends it, the
\* mapping of the token it carries is in the store, and the user record of
\* its username is in the store, holds exactly that token and holds the
\* email the message is addressed to.
C19_TokenMessageMatchesStoredRecord ==
    [][ \A m \in sent' \ sent :
            m.kind = "token" =>
                /\ Exists(_token_id(m.token))
                /\ MapsTo(m.token, m.username)
                /\ HasUser(m.username)
                /\ UserRecord(m.username).auth_token = m.token
                /\ UserRecord(m.username).email = m.to ]_vars

\* a key of a user record or of a token mapping
IsUserOrTokenKey(k) == k[1] \in {"user", "auth"}

\* a register whose secret is absent, empty or different from the configured
\* one never enters _save_user and has written no user record and no mapping
C20_State ==
    \A p \in Procs :
        (proc[p].op = "register" /\ InFlight(p) /\ ~SecretEqualNonEmpty(p)) =>
            /\ proc[p].pc \notin SaveUserPcs
            /\ \A i \in 1..Len(proc[p].writes) : ~IsUserOrTokenKey(proc[p].writes[i])

\* user records and mappings are written only by a validated register with
\* the configured secret or by a confirmation of an issued token, which
\* writes the fields of the registration it read
C20_Writes ==
    \A k \in DOMAIN store' :
        (IsUserOrTokenKey(k) /\ (k \notin DOMAIN store \/ store'[k] # store[k])) =>
            \E p \in Procs :
                /\ proc[p].pc \in {"_save_user_set_user", "_save_user_set_token"}
                /\ proc'[p] # proc[p]
                /\ k \in {_user_id(proc[p].username), _token_id(proc[p].uuid)}
                /\ proc[p].op \in {"register", "confirm_registration"}
                /\ proc[p].op = "register" =>
                      /\ SecretEqualNonEmpty(p)
                      /\ CheckFormat(proc[p].username, proc[p].email) = None
                      /\ ~proc[p].existed
                /\ proc[p].op = "confirm_registration" =>
                      /\ proc[p].token \in KnownRegistrationTokens
                      /\ proc[p].data # None
                      /\ k[1] = "user" =>
                            /\ Loads(store'[k]).username = Loads(proc[p].data).username
                            /\ Loads(store'[k]).email = Loads(proc[p].data).email
                            /\ Loads(store'[k]).password = Loads(proc[p].data).password

\* a registration holds the username, the email and the password hash of the
\* register call that wrote it, is never changed while it is in the store, is
\* what a confirmation reads, and its token is sent by a register that
\* returns True
C20_Registrations ==
    /\ \A p \in Procs :
          (proc[p].pc = "_save_registration" /\ proc'[p] # proc[p]) =>
              LET key == _registration_id(proc[p].uuid) IN
              /\ proc[p].op = "register"
              /\ key \in DOMAIN store'
              /\ Loads(store'[key]).username = proc[p].username
              /\ Loads(store'[key]).email = proc[p].email
              /\ Loads(store'[key]).password = Decode(proc[p].hash_password)
    /\ \A k \in DOMAIN store \cap DOMAIN store' :
          k[1] = "registration" => store'[k] = store[k]
    /\ \A p \in Procs :
          (proc[p].pc = "confirm_get" /\ proc'[p] # proc[p]) =>
              proc'[p].data = Get(_registration_id(proc[p].token))
    /\ \A m \in sent' \ sent :
          m.kind = "confirm" =>
              \E p \in Procs : /\ proc[p].op = "register" /\ proc[p].uuid = m.token
                               /\ proc'[p].pc = "done"
                               /\ proc'[p].result = Return(True)

\* C20: a user record is created only by a register that passed validation
\* with a secret equal to the configured one, or by a confirm_registration
\* whose token was issued by a register that returned True, and then with the
\* username, email and password hash of that register call; a register with
\* an absent, empty or non-matching secret never writes a user record or a
\* token mapping.
C20_UserCreatedOnlyBySecretOrConfirmation ==
    []C20_State /\ [][C20_Writes /\ C20_Registrations]_vars

\* a user record written by a confirmation is in the store, and the register
\* call that issued the token returned True
C20_Witness ==
    \E m \in minted : \E p \in Procs :
        /\ m.op = "confirm_registration"
        /\ HasUser(m.username) /\ UserRecord(m.username).auth_token = m.auth_token
        /\ Done(p, "register") /\ proc[p].result = Return(True)
        /\ proc[p].username = m.username
        /\ m.origin \in KnownRegistrationTokens

====
